---- MODULE Spec2Model ----
(***************************************************************************)
(* Model of the finite-field ring RingModN<T> (src/src/fft.h): scalar      *)
(* arithmetic, primitive-root search, element order, roots of unity, the   *)
(* NTT butterflies, the operations on whole buffers and the omega cache on *)
(* disk; of the FFT driver built over the ring; and of the fixed-size      *)
(* container array::Vector<T> (src/unnamed/part_000) with its heap.        *)
(***************************************************************************)
EXTENDS Integers, Sequences, FiniteSets, TLC

VARIABLES
    card,                 \* RingModN::_card
    root,                 \* RingModN::root
    primes,               \* RingModN::primes
    exponents,            \* RingModN::exponents
    all_primes_factors,   \* RingModN::all_primes_factors
    proper_divisors,      \* RingModN::proper_divisors
    pc,                   \* lifecycle of the ring object
    call,                 \* the last operation called and its arguments
    ret,                  \* what that operation returned or threw
    buf1,                 \* element buffer P handed to the butterflies
    buf2,                 \* element buffer Q handed to the butterflies
    files,                \* cache files of the working directory, by name
    proc,                 \* the callers of compute_omegas_cached
    serialized,           \* whether the callers serialize their calls
    vecs,                 \* the Vector objects of the client: m_data, m_size
    heap,                 \* the storage blocks handed out by Vector::allocator
    last,                 \* the last Vector operation and how it ended
    ndebug,               \* whether the program is built with NDEBUG
    fft,                  \* the FFT driver built over the ring: gf, n, inv_n_mod_p
    dest,                 \* the Buffers written by mul_vec_to_vecp
    omegas                \* the Vector W written by compute_omegas

vars == <<card, root, primes, exponents, all_primes_factors, proper_divisors,
          pc, call, ret, buf1, buf2, files, proc, serialized,
          vecs, heap, last, ndebug, fft, dest, omegas>>

ringVars == <<card, root, primes, exponents, all_primes_factors, proper_divisors>>
bufVars == <<buf1, buf2>>
cacheVars == <<files, proc, serialized>>
vecVars == <<vecs, heap, last, ndebug>>
outVars == <<dest, omegas>>

-----------------------------------------------------------------------------
(* Bounds of the model *)

\* moduli 2..MaxCard are explored by the ring specification
MaxCard == 13

\* the modulus of the worked example, Ring(q = 97)
ExampleCards == {97}

Moduli == 2..MaxCard

\* moduli 2..MaxBufCard are explored by the buffer specification
MaxBufCard == 4

BufModuli == 2..MaxBufCard

\* number of elements allocated to each buffer
BufLen == 2

\* compute_omegas_cached is called with 1 <= n <= MaxOmegas
MaxOmegas == 2

\* the rings that share the working directory, and the roots they pass as w
CacheModuli == {11, 13}
CacheOmegas == {10}

\* the processes that call compute_omegas_cached
Procs == {"p1", "p2"}

IsPrime(n) == n >= 2 /\ \A d \in 2..(n - 1) : n % d # 0

-----------------------------------------------------------------------------
(* Element type T: an unsigned integer of T_BITS bits (RingModN<uint16_t>) *)

T_MOD == 65536

\* conversion of an arithmetic result to T
ToT(x) == x % T_MOD

\* a modulus above half the range of T, for which a + b does not fit in T
WideCards == {32771}

\* an element of an output object that the call has not set
Unset == -1

-----------------------------------------------------------------------------
(* arith.h: the arithmetic kernel used by the ring *)

RECURSIVE factor_prime_step(_, _, _, _)
\* trial division up to the square root: n is what is left to factor, d the
\* next trial divisor; what is left above the square root is a prime
factor_prime_step(n, d, ps, es) ==
    IF n = 1 THEN [primes |-> ps, exponents |-> es]
    ELSE IF n % d = 0
        THEN IF Len(ps) > 0 /\ ps[Len(ps)] = d
             THEN factor_prime_step(n \div d, d, ps,
                                    [es EXCEPT ![Len(es)] = @ + 1])
             ELSE factor_prime_step(n \div d, d, Append(ps, d), Append(es, 1))
    ELSE IF d * d > n
        THEN [primes |-> Append(ps, n), exponents |-> Append(es, 1)]
    ELSE factor_prime_step(n, d + 1, ps, es)

factor_prime(n) == factor_prime_step(n, 2, <<>>, <<>>)

RECURSIVE get_prime_factors(_, _)
get_prime_factors(ps, es) ==
    IF ps = <<>> THEN <<>>
    ELSE [i \in 1..es[1] |-> ps[1]] \o get_prime_factors(Tail(ps), Tail(es))

get_proper_divisors(n, ps) == [i \in 1..Len(ps) |-> n \div ps[i]]

RECURSIVE gcd(_, _)
gcd(a, b) == IF b = 0 THEN a ELSE gcd(b, a % b)

RECURSIVE extended_gcd_step(_, _, _, _, _, _)
extended_gcd_step(old_r, r, old_s, s, old_t, t) ==
    IF r = 0 THEN [g |-> old_r, s |-> old_s, t |-> old_t]
    ELSE LET quotient == old_r \div r
         IN extended_gcd_step(r, old_r - quotient * r,
                              s, old_s - quotient * s,
                              t, old_t - quotient * t)

\* (g, s, t) with g = gcd(a, b) and s*a + t*b = g
extended_gcd(a, b) == extended_gcd_step(a, b, 1, 0, 0, 1)

-----------------------------------------------------------------------------
(* Scalar operations of RingModN; q is this->_card *)

check(q, a) == a >= 0 /\ a < q

\* mutant: the sum is returned without the reduction by the modulus
add_no_reduce(q, a, b) == ToT(a + b)

add(q, a, b) ==
    LET c == ToT(a + b)
    IN IF c >= q THEN c - q ELSE c

sub(q, a, b) == IF a >= b THEN a - b ELSE q - (b - a)

neg(q, a) == sub(q, 0, a)

mul(q, a, b) == ToT((a * b) % q)

\* mutant: the negative Bezout coefficient is not brought back into [0, q)
inv_bezout_no_fix(q, a) == ToT(extended_gcd(a, q).s)

inv_bezout(q, a) ==
    LET bezout == extended_gcd(a, q)
    IN IF bezout.s < 0 THEN ToT(q + bezout.s) ELSE ToT(bezout.s)

inv(q, a) == inv_bezout(q, a)

div(q, a, b) == mul(q, a, inv(q, b))

RECURSIVE exp_naive_loop(_, _, _, _, _)
exp_naive_loop(q, base, exponent, i, result) ==
    IF i < exponent
    THEN exp_naive_loop(q, base, exponent, i + 1, mul(q, result, base))
    ELSE result

exp_naive(q, base, exponent) ==
    IF exponent = 0 THEN 1
    ELSE IF exponent = 1 THEN base
    ELSE exp_naive_loop(q, base, exponent, 1, base)

RECURSIVE exp_quick_even(_, _, _)
\* mutant: the multiplication for an odd exponent is left out
exp_quick_even(q, base, exponent) ==
    IF exponent = 0 THEN 1
    ELSE IF exponent = 1 THEN base
    ELSE LET tmp == exp_quick_even(q, base, exponent \div 2)
         IN mul(q, tmp, tmp)

RECURSIVE exp_quick(_, _, _)
exp_quick(q, base, exponent) ==
    IF exponent = 0 THEN 1
    ELSE IF exponent = 1 THEN base
    ELSE LET tmp == exp_quick(q, base, exponent \div 2)
             result == mul(q, tmp, tmp)
         IN IF exponent % 2 = 1 THEN mul(q, result, base) ELSE result

exp(q, a, b) == exp_quick(q, a, b)

NoSolution == [exc |-> "NoSolution", val |-> 0]
Returns(v) == [exc |-> "none", val |-> v]

\* the for (result = first; result < card(); result++) scan: the first result
\* whose power is the exponent is returned, NoSolution is thrown after the scan
log_naive_scan(q, base, exponent, first) ==
    LET hits == {result \in first..(q - 1) : exp(q, base, result) = exponent}
    IN IF hits = {}
       THEN NoSolution
       ELSE Returns(CHOOSE r \in hits : \A r2 \in hits : r <= r2)

\* mutant: the scan starts at 0 instead of 1
log_naive_from_zero(q, base, exponent) == log_naive_scan(q, base, exponent, 0)

log_naive(q, base, exponent) == log_naive_scan(q, base, exponent, 1)

log(q, a, b) == log_naive(q, a, b)

-----------------------------------------------------------------------------
(* Butterflies: in place on the first len elements of buf1 (P) and buf2 (Q) *)

\* mutant: Q[i] is computed from the P[i] that was just overwritten
butterfly_ct_aliased(q, coef, b1, b2, len) ==
    LET P == [i \in 1..Len(b1) |->
                 IF i <= len THEN add(q, b1[i], mul(q, coef, b2[i])) ELSE b1[i]]
    IN [buf1 |-> P,
        buf2 |-> [i \in 1..Len(b2) |->
                     IF i <= len THEN sub(q, P[i], mul(q, coef, b2[i])) ELSE b2[i]]]

butterfly_ct(q, coef, b1, b2, len) ==
    [buf1 |-> [i \in 1..Len(b1) |->
                  IF i <= len
                  THEN LET a == b1[i]
                           b == mul(q, coef, b2[i])
                       IN add(q, a, b)
                  ELSE b1[i]],
     buf2 |-> [i \in 1..Len(b2) |->
                  IF i <= len
                  THEN LET a == b1[i]
                           b == mul(q, coef, b2[i])
                       IN sub(q, a, b)
                  ELSE b2[i]]]

\* mutant: the coefficient multiplies b instead of a - b
butterfly_gs_coef_on_b(q, coef, b1, b2, len) ==
    [buf1 |-> [i \in 1..Len(b1) |->
                  IF i <= len THEN add(q, b1[i], b2[i]) ELSE b1[i]],
     buf2 |-> [i \in 1..Len(b2) |->
                  IF i <= len THEN sub(q, b1[i], mul(q, coef, b2[i])) ELSE b2[i]]]

butterfly_gs(q, coef, b1, b2, len) ==
    [buf1 |-> [i \in 1..Len(b1) |->
                  IF i <= len
                  THEN LET a == b1[i]
                           b == b2[i]
                       IN add(q, a, b)
                  ELSE b1[i]],
     buf2 |-> [i \in 1..Len(b2) |->
                  IF i <= len
                  THEN LET a == b1[i]
                           b == b2[i]
                           c == sub(q, a, b)
                       IN mul(q, coef, c)
                  ELSE b2[i]]]

-----------------------------------------------------------------------------
(* Operations on whole buffers; index i of the source is position i + 1 *)

\* mul_coef_to_buf(a, src, dest, len): dest[i] = mul(a, src[i]) for i < len
mul_coef_to_buf(q, a, src, dst, len) ==
    [i \in 1..Len(dst) |-> IF i <= len THEN mul(q, a, src[i]) ELSE dst[i]]

\* neg(n, x): x[i] = sub(0, x[i]) for i < n
neg_buf(q, n, x) ==
    [i \in 1..Len(x) |-> IF i <= n THEN sub(q, 0, x[i]) ELSE x[i]]

\* vec::Buffers::copy(i, src): the inner buffer i is overwritten from src
Buffers_copy(bufs, i, src) ==
    [bufs EXCEPT ![i] = [j \in 1..Len(bufs[i]) |-> src[j]]]

\* vec::Buffers::fill(i, v): the inner buffer i is filled with the constant v
Buffers_fill(bufs, i, v) ==
    [bufs EXCEPT ![i] = [j \in 1..Len(bufs[i]) |-> v]]

\* mutant: the row of the coefficient q - 1 is copied and not negated
mul_vec_to_vecp_no_neg(q, u, src, dst) ==
    [i \in 1..Len(dst) |->
        IF i > Len(u) THEN dst[i]
        ELSE IF u[i] > 1 /\ u[i] < q - 1
             THEN mul_coef_to_buf(q, u[i], src[i], dst[i], Len(src[1]))
        ELSE IF u[i] = 0 THEN Buffers_fill(dst, i, 0)[i]
        ELSE Buffers_copy(dst, i, src[i])[i]]

\* dest after mul_vec_to_vecp(u, src, dest): row i of src times u[i]
mul_vec_to_vecp(q, u, src, dst) ==
    LET n == Len(u)
        len == Len(src[1])
        h == q - 1
        row(i) ==
            LET coef == u[i]
            IN IF coef > 1 /\ coef < h
               THEN mul_coef_to_buf(q, coef, src[i], dst[i], len)
               ELSE IF coef = 1 THEN Buffers_copy(dst, i, src[i])[i]
               ELSE IF coef = 0 THEN Buffers_fill(dst, i, 0)[i]
               ELSE IF coef = h
                    THEN neg_buf(q, len, Buffers_copy(dst, i, src[i])[i])
               ELSE dst[i]
    IN [i \in 1..Len(dst) |-> IF i <= n THEN row(i) ELSE dst[i]]

\* mutant: the powers start at w instead of 1
compute_omegas_from_w(q, n, w) == [i \in 1..n |-> exp(q, w, i)]

\* W after compute_omegas(W, n, w): W[i] = exp(w, i) for 0 <= i < n
compute_omegas(q, n, w) == [i \in 1..n |-> exp(q, w, i - 1)]

\* x after hadamard_mul_doubled(n, x, y): y is applied to x[0 .. half) and
\* to x_next = x + half
hadamard_mul_doubled(q, n, x, y) ==
    LET half == n \div 2
    IN [i \in 1..Len(x) |->
           IF i <= half THEN mul(q, x[i], y[i])
           ELSE IF i <= 2 * half THEN mul(q, x[i], y[i - half])
           ELSE x[i]]

\* x after add_doubled(n, x, y)
add_doubled(q, n, x, y) ==
    LET half == n \div 2
    IN [i \in 1..Len(x) |->
           IF i <= half THEN add(q, x[i], y[i])
           ELSE IF i <= 2 * half THEN add(q, x[i], y[i - half])
           ELSE x[i]]

-----------------------------------------------------------------------------
(* Group-theoretic operations *)

\* mutant: the scan of the proper divisors skips the first one
passes_divisor_test_skip_first(q, pds, nb) ==
    \A i \in 2..Len(pds) : exp(q, nb, pds[i]) # 1

\* the proper-divisor test shared by is_primitive_root and find_primitive_root
passes_divisor_test(q, pds, nb) ==
    \A i \in 1..Len(pds) : exp(q, nb, pds[i]) # 1

is_primitive_root(nb) == passes_divisor_test(card, proper_divisors, nb)

RECURSIVE find_primitive_root_loop(_, _, _)
\* the while (nb <= h) loop; 0 when no candidate passes (root stays unset)
find_primitive_root_loop(q, pds, nb) ==
    IF nb <= q - 1
    THEN IF passes_divisor_test(q, pds, nb)
         THEN nb
         ELSE find_primitive_root_loop(q, pds, nb + 1)
    ELSE 0

\* the value of this->root after find_primitive_root()
find_primitive_root(q, pds, oldroot) ==
    IF oldroot # 0 THEN oldroot
    ELSE IF q - 1 = 1 THEN 1
    ELSE find_primitive_root_loop(q, pds, 2)

RECURSIVE do_step_get_order_drop(_, _, _, _, _)
\* mutant: a prime whose test succeeds is dropped even when its exponent is > 1
do_step_get_order_drop(q, x, h, ps, es) ==
    IF ps = <<>> THEN h
    ELSE LET p == ps[Len(ps)]
             ps1 == SubSeq(ps, 1, Len(ps) - 1)
             es1 == SubSeq(es, 1, Len(es) - 1)
             y == h \div p
         IN IF exp(q, x, y) # 1
            THEN do_step_get_order_drop(q, x, h, ps1, es1)
            ELSE do_step_get_order_drop(q, x, y, ps1, es1)

RECURSIVE do_step_get_order(_, _, _, _, _)
do_step_get_order(q, x, h, ps, es) ==
    IF ps = <<>> THEN h
    ELSE LET p == ps[Len(ps)]
             r == es[Len(es)]
             ps1 == SubSeq(ps, 1, Len(ps) - 1)
             es1 == SubSeq(es, 1, Len(es) - 1)
             y == h \div p
         IN IF exp(q, x, y) # 1
            THEN do_step_get_order(q, x, h, ps1, es1)
            ELSE IF r > 1
                 THEN do_step_get_order(q, x, y, Append(ps1, p), Append(es1, r - 1))
                 ELSE do_step_get_order(q, x, y, ps1, es1)

get_order(x) ==
    IF x = 0 \/ x = 1 THEN 1
    ELSE LET h == card - 1
             order == do_step_get_order(card, x, h, primes, exponents)
         IN IF order = 1 THEN h ELSE order

\* mutant: do_step_get_order is handed the ring's own lists, which it empties
factors_after_get_order_shared(x) ==
    IF x = 0 \/ x = 1
    THEN [primes |-> primes, exponents |-> exponents]
    ELSE [primes |-> <<>>, exponents |-> <<>>]

\* this->primes and this->exponents after get_order(x): do_step_get_order
\* pops from the copies _primes and _exponent
factors_after_get_order(x) == [primes |-> primes, exponents |-> exponents]

check_primitive_root(nb) == get_order(nb) = card - 1

\* mutant: n is used where gcd(n, q-1) is meant
get_nth_root_no_gcd(n) == exp(card, root, (card - 1) \div n)

get_nth_root(n) ==
    LET q_minus_one == card - 1
        d == gcd(n, q_minus_one)
    IN exp(card, root, q_minus_one \div d)

get_primitive_root == root

-----------------------------------------------------------------------------
(* The ring object: construction, init() and calls of its const operations *)

NoCall == [op |-> "none", a |-> 0, b |-> 0]
NoRet == Returns(0)

NoCache == /\ files = <<>>
           /\ proc = <<>>
           /\ serialized = TRUE

\* RingModN(card): the state after construction
Construct(q) ==
    /\ card = q
    /\ root = 0
    /\ primes = <<>>
    /\ exponents = <<>>
    /\ all_primes_factors = <<>>
    /\ proper_divisors = <<>>
    /\ pc = "constructed"
    /\ call = NoCall
    /\ ret = NoRet

\* no Vector is handed to the ring
NoVecs == vecs = <<>> /\ heap = <<>> /\ last = <<>> /\ ndebug = FALSE

NoBufs == buf1 = <<>> /\ buf2 = <<>>

\* no FFT driver is built, and no output object is handed to the ring
NoFFT == <<>>
NoDriver == fft = NoFFT /\ dest = <<>> /\ omegas = <<>>

Init ==
    /\ \E q \in Moduli : Construct(q)
    /\ NoBufs
    /\ NoCache
    /\ NoVecs
    /\ NoDriver

\* init(), as run by create() and alloc(); the 'root not found' assertion is
\* compiled out under NDEBUG
RingInit ==
    /\ pc = "constructed"
    /\ LET f == factor_prime(card - 1)
           pds == get_proper_divisors(card - 1, f.primes)
           g == find_primitive_root(card, pds, root)
       IN /\ primes' = f.primes
          /\ exponents' = f.exponents
          /\ all_primes_factors' = get_prime_factors(f.primes, f.exponents)
          /\ proper_divisors' = pds
          /\ root' = g
          /\ pc' = IF g = 0 /\ ~ndebug THEN "assert_failed" ELSE "ready"
    /\ call' = [op |-> "init", a |-> 0, b |-> 0]
    /\ ret' = NoRet
    /\ UNCHANGED <<card, bufVars, cacheVars, vecVars, fft, outVars>>

\* a call of a const operation from the idle client: only the call and its
\* result change
Called(op, a, b, r) ==
    /\ pc = "ready"
    /\ pc' = "returned"
    /\ call' = [op |-> op, a |-> a, b |-> b]
    /\ ret' = r
    /\ UNCHANGED <<ringVars, bufVars, cacheVars, vecVars, fft, outVars>>

\* the caller has consumed the result (or caught the exception), has let go
\* of the output objects it had handed to the operation, and goes on
Resume ==
    /\ pc = "returned"
    /\ pc' = "ready"
    /\ call' = NoCall
    /\ ret' = NoRet
    /\ dest' = <<>>
    /\ omegas' = <<>>
    /\ UNCHANGED <<ringVars, bufVars, cacheVars, vecVars, fft>>

Elems == 0..(card - 1)

CallNeg == \E a \in Elems : Called("neg", a, 0, Returns(neg(card, a)))
CallAdd == \E a, b \in Elems : Called("add", a, b, Returns(add(card, a, b)))
CallSub == \E a, b \in Elems : Called("sub", a, b, Returns(sub(card, a, b)))
CallMul == \E a, b \in Elems : Called("mul", a, b, Returns(mul(card, a, b)))
CallInv == \E a \in Elems : Called("inv", a, 0, Returns(inv(card, a)))
CallDiv == \E a, b \in Elems : Called("div", a, b, Returns(div(card, a, b)))
CallExp == \E a, b \in Elems : Called("exp", a, b, Returns(exp(card, a, b)))
CallExpNaive ==
    \E a, b \in Elems : Called("exp_naive", a, b, Returns(exp_naive(card, a, b)))
CallExpQuick ==
    \E a, b \in Elems : Called("exp_quick", a, b, Returns(exp_quick(card, a, b)))
\* log asserts check(a) only: b is any value of T, also one outside the ring
CallLog == \E a \in Elems, b \in 0..card : Called("log", a, b, log(card, a, b))
CallIsPrimitiveRoot ==
    \E x \in Elems : Called("is_primitive_root", x, 0, Returns(is_primitive_root(x)))
CallGetOrder ==
    \E x \in Elems :
        /\ pc = "ready"
        /\ pc' = "returned"
        /\ call' = [op |-> "get_order", a |-> x, b |-> 0]
        /\ ret' = Returns(get_order(x))
        /\ primes' = factors_after_get_order(x).primes
        /\ exponents' = factors_after_get_order(x).exponents
        /\ UNCHANGED <<card, root, all_primes_factors, proper_divisors,
                       bufVars, cacheVars, vecVars, fft, outVars>>
CallCheckPrimitiveRoot ==
    \E x \in Elems :
        Called("check_primitive_root", x, 0, Returns(check_primitive_root(x)))
CallGetNthRoot ==
    \E n \in 1..(card - 1) : Called("get_nth_root", n, 0, Returns(get_nth_root(n)))
CallGetPrimitiveRoot == Called("get_primitive_root", 0, 0, Returns(get_primitive_root))

\* find_primitive_root() called again on the initialised ring
CallFindPrimitiveRoot ==
    /\ pc = "ready"
    /\ pc' = "returned"
    /\ call' = [op |-> "find_primitive_root", a |-> 0, b |-> 0]
    /\ ret' = NoRet
    /\ root' = find_primitive_root(card, proper_divisors, root)
    /\ UNCHANGED <<card, primes, exponents, all_primes_factors, proper_divisors,
                   bufVars, cacheVars, vecVars, fft, outVars>>

\* the scalar operations, for every modulus 2..MaxCard
Next ==
    \/ RingInit
    \/ Resume
    \/ CallNeg
    \/ CallAdd
    \/ CallSub
    \/ CallMul
    \/ CallInv
    \/ CallDiv
    \/ CallExp
    \/ CallExpNaive
    \/ CallExpQuick
    \/ CallLog

Spec == Init /\ [][Next]_vars

\* the group-theoretic operations, for the moduli above and the worked example
InitGroup ==
    /\ \E q \in Moduli \cup ExampleCards : Construct(q)
    /\ NoBufs
    /\ NoCache
    /\ NoVecs
    /\ NoDriver

NextGroup ==
    \/ RingInit
    \/ Resume
    \/ CallIsPrimitiveRoot
    \/ CallGetOrder
    \/ CallCheckPrimitiveRoot
    \/ CallGetNthRoot
    \/ CallGetPrimitiveRoot

SpecGroup == InitGroup /\ [][NextGroup]_vars

-----------------------------------------------------------------------------
(* The buffer-level operations, called on two buffers of the client *)

\* the client's buffers hold BufLen elements of the ring each
InitBuf ==
    /\ \E q \in BufModuli :
          /\ Construct(q)
          /\ buf1 \in [1..BufLen -> 0..(q - 1)]
          /\ buf2 \in [1..BufLen -> 0..(q - 1)]
    /\ NoCache
    /\ NoVecs
    /\ NoDriver

\* a call of an in-place buffer operation: r holds the buffers it leaves
CalledOnBufs(op, a, b, r) ==
    /\ pc = "ready"
    /\ pc' = "returned"
    /\ call' = [op |-> op, a |-> a, b |-> b]
    /\ ret' = NoRet
    /\ buf1' = r.buf1
    /\ buf2' = r.buf2
    /\ UNCHANGED <<ringVars, cacheVars, vecVars, fft, outVars>>

\* the coefficients and elements tried in a ring: every element of a small
\* ring, the elements 1 and q - 1 of a wide one
Samples(q) == IF q \in WideCards THEN {1, q - 1} ELSE 0..(q - 1)

CallButterflyCt ==
    \E coef \in Samples(card), len \in 0..Len(buf1) :
        CalledOnBufs("butterfly_ct", coef, len,
                     butterfly_ct(card, coef, buf1, buf2, len))

CallButterflyGs ==
    \E coef \in Samples(card), len \in 0..Len(buf1) :
        CalledOnBufs("butterfly_gs", coef, len,
                     butterfly_gs(card, coef, buf1, buf2, len))

\* the round trip of a client: butterfly_ct(c, P, Q, L), then
\* butterfly_gs(inv(c), P, Q, L) on the buffers it left
CallCtThenGs ==
    \E coef \in Samples(card) \ {0}, len \in 0..Len(buf1) :
        LET ct == butterfly_ct(card, coef, buf1, buf2, len)
        IN CalledOnBufs("ct_then_gs", coef, len,
                        butterfly_gs(card, inv(card, coef), ct.buf1, ct.buf2, len))

\* x is the first buffer, y the second: y holds at least n / 2 elements
CallHadamardMulDoubled ==
    \E n \in 0..Len(buf1) :
        CalledOnBufs("hadamard_mul_doubled", n, 0,
                     [buf1 |-> hadamard_mul_doubled(card, n, buf1, buf2),
                      buf2 |-> buf2])

CallAddDoubled ==
    \E n \in 0..Len(buf1) :
        CalledOnBufs("add_doubled", n, 0,
                     [buf1 |-> add_doubled(card, n, buf1, buf2),
                      buf2 |-> buf2])

\* the Buffers src, whose rows are the two buffers of the client
src_bufs == <<buf1, buf2>>

\* a Buffers of the shape of src, none of its elements set
fresh_bufs == [i \in 1..Len(src_bufs) |-> [j \in 1..Len(src_bufs[i]) |-> Unset]]

\* mul_vec_to_vecp(u, src, dest) with u = (a, b) and a dest just allocated
CallMulVecToVecp ==
    \E a, b \in Samples(card) :
        /\ pc = "ready"
        /\ pc' = "returned"
        /\ call' = [op |-> "mul_vec_to_vecp", a |-> a, b |-> b]
        /\ ret' = NoRet
        /\ dest' = mul_vec_to_vecp(card, <<a, b>>, src_bufs, fresh_bufs)
        /\ UNCHANGED <<ringVars, bufVars, cacheVars, vecVars, fft, omegas>>

\* the lengths asked of compute_omegas: up to MaxOmegas, and 8 in the ring
\* of the worked example
ExampleLens == {8}
OmegaLens == (0..MaxOmegas) \cup (IF card \in ExampleCards THEN ExampleLens ELSE {})

\* compute_omegas(W, n, w) on a Vector W of n elements
CallComputeOmegas ==
    \E n \in OmegaLens, w \in Elems :
        /\ pc = "ready"
        /\ pc' = "returned"
        /\ call' = [op |-> "compute_omegas", a |-> n, b |-> w]
        /\ ret' = NoRet
        /\ omegas' = compute_omegas(card, n, w)
        /\ UNCHANGED <<ringVars, bufVars, cacheVars, vecVars, fft, dest>>

\* the operations on the client's buffers
BufCalls ==
    \/ CallButterflyCt
    \/ CallButterflyGs
    \/ CallCtThenGs
    \/ CallHadamardMulDoubled
    \/ CallAddDoubled
    \/ CallMulVecToVecp

NextBuf ==
    \/ RingInit
    \/ Resume
    \/ BufCalls

SpecBuf == InitBuf /\ [][NextBuf]_vars

\* one buffer operation of a ring of a wide modulus
InitBufWide ==
    /\ \E q \in WideCards :
          /\ Construct(q)
          /\ buf1 \in [1..BufLen -> Samples(q)]
          /\ buf2 \in [1..BufLen -> Samples(q)]
    /\ NoCache
    /\ NoVecs
    /\ NoDriver

NextBufWide ==
    \/ RingInit
    \/ BufCalls

SpecBufWide == InitBufWide /\ [][NextBufWide]_vars

-----------------------------------------------------------------------------
(* Every operation of the initialised ring, on buffers of one element *)

MinBufLen == 1

InitRing ==
    /\ \E q \in BufModuli :
          /\ Construct(q)
          /\ buf1 \in [1..MinBufLen -> 0..(q - 1)]
          /\ buf2 \in [1..MinBufLen -> 0..(q - 1)]
    /\ NoCache
    /\ NoVecs
    /\ NoDriver

NextRing ==
    \/ RingInit
    \/ Resume
    \/ CallNeg
    \/ CallAdd
    \/ CallSub
    \/ CallMul
    \/ CallInv
    \/ CallDiv
    \/ CallExp
    \/ CallExpNaive
    \/ CallExpQuick
    \/ CallLog
    \/ CallIsPrimitiveRoot
    \/ CallGetOrder
    \/ CallCheckPrimitiveRoot
    \/ CallGetNthRoot
    \/ CallGetPrimitiveRoot
    \/ CallFindPrimitiveRoot
    \/ CallComputeOmegas
    \/ BufCalls

SpecRing == InitRing /\ [][NextRing]_vars

-----------------------------------------------------------------------------
(* The FFT driver (class FFT) built over the ring *)

\* GF<T>::inv and GF<T>::p of the field handed to the driver
gf_inv(a) == inv(card, a)
gf_p == card

\* mutant: n itself is stored where its inverse is meant
FFT_ctor_no_inv(gf, n) ==
    [gf |-> gf, n |-> n, inv_n_mod_p |-> ToT(n) % gf_p, arith |-> "Arith"]

\* FFT(gf, n): the fields of the driver after construction
FFT_ctor(gf, n) ==
    [gf |-> gf, n |-> n, inv_n_mod_p |-> gf_inv(ToT(n)) % gf_p, arith |-> "Arith"]

\* the driver is built for a length 1 <= n < q over the ring, by reference
ConstructFFT ==
    \E n \in 1..(card - 1) :
        /\ pc = "ready"
        /\ fft = NoFFT
        /\ pc' = "returned"
        /\ call' = [op |-> "FFT", a |-> n, b |-> 0]
        /\ ret' = NoRet
        /\ fft' = FFT_ctor("ring", n)
        /\ UNCHANGED <<ringVars, bufVars, cacheVars, vecVars, outVars>>

\* ~FFT(): the driver is destroyed
DestroyFFT ==
    /\ pc = "ready"
    /\ fft # NoFFT
    /\ fft' = NoFFT
    /\ UNCHANGED <<ringVars, pc, call, ret, bufVars, cacheVars, vecVars, outVars>>

InitFFT ==
    /\ \E q \in Moduli \cup ExampleCards : Construct(q)
    /\ NoBufs
    /\ NoCache
    /\ NoVecs
    /\ NoDriver

NextFFT ==
    \/ RingInit
    \/ Resume
    \/ ConstructFFT
    \/ DestroyFFT

SpecFFT == InitFFT /\ [][NextFFT]_vars

-----------------------------------------------------------------------------
(* The worked examples: Ring(97) and Ring(257) *)

LogExampleCards == {257}
LogBases == {3}

CallLogOfBase ==
    \E a \in LogBases, b \in Elems : Called("log", a, b, log(card, a, b))

InitExample ==
    /\ \E q \in ExampleCards \cup LogExampleCards : Construct(q)
    /\ NoBufs
    /\ NoCache
    /\ NoVecs
    /\ NoDriver

NextExample ==
    \/ RingInit
    \/ Resume
    \/ CallGetNthRoot
    \/ CallComputeOmegas
    \/ CallLogOfBase

SpecExample == InitExample /\ [][NextExample]_vars

-----------------------------------------------------------------------------
(* compute_omegas and compute_omegas_cached: the omega cache on disk *)

Digits == <<"0", "1", "2", "3", "4", "5", "6", "7", "8", "9">>

IsDigit(c) == \E d \in 1..10 : Digits[d] = c

DigitVal(c) == (CHOOSE d \in 1..10 : Digits[d] = c) - 1

RECURSIVE ToDecimal(_)
\* operator<< of an unsigned integer: its decimal digits
ToDecimal(v) ==
    IF v < 10 THEN <<Digits[v + 1]>>
    ELSE ToDecimal(v \div 10) \o <<Digits[(v % 10) + 1]>>

\* filename << "W" << w << ".cache"
filename(w) == <<"W">> \o ToDecimal(w) \o <<".cache">>

FileNames == {filename(w) : w \in CacheOmegas}

RECURSIVE file_output_compact(_)
\* mutant: the elements are written without the newline that separates them
file_output_compact(W) ==
    IF W = <<>> THEN <<>>
    ELSE ToDecimal(W[1]) \o file_output_compact(Tail(W))

RECURSIVE file_output(_)
\* file << W.get(i) << "\n" for each i: one decimal element per line
file_output(W) ==
    IF W = <<>> THEN <<>>
    ELSE ToDecimal(W[1]) \o <<"\n">> \o file_output(Tail(W))

RECURSIVE read_digits(_, _, _)
\* the digits of one element from position i on: its value and where it ends
read_digits(data, i, v) ==
    IF i <= Len(data) /\ IsDigit(data[i])
    THEN read_digits(data, i + 1, ToT(v * 10 + DigitVal(data[i])))
    ELSE [val |-> v, next |-> i]

RECURSIVE read_elements(_, _, _)
\* while (file >> tmp): skip white space, read an element; stops at the end
\* of the data and at a character that starts no number
read_elements(data, i, acc) ==
    IF i > Len(data) THEN acc
    ELSE IF data[i] = "\n" THEN read_elements(data, i + 1, acc)
    ELSE IF IsDigit(data[i])
        THEN LET e == read_digits(data, i, 0)
             IN read_elements(data, e.next, Append(acc, e.val))
    ELSE acc

\* a write of chars at offset pos of a file holding data; a gap is zero bytes
write_at(data, pos, chars) ==
    LET end == pos + Len(chars)
        len == IF Len(data) > end THEN Len(data) ELSE end
    IN [i \in 1..len |->
           IF i > pos /\ i <= end THEN chars[i - pos]
           ELSE IF i <= Len(data) THEN data[i]
           ELSE "NUL"]

NoFile == [exists |-> FALSE, data |-> <<>>, by_card |-> 0, by_n |-> 0]

Idle == [status |-> "idle", card |-> 0, n |-> 0, w |-> 0, W |-> <<>>,
         nread |-> 0, pending |-> <<>>, pos |-> 0]

Busy(p) == proc[p].status \in {"miss", "writing"}

\* the working directory holds no cache file and no call has begun
InitCache ==
    /\ Construct(2)
    /\ NoBufs
    /\ NoVecs
    /\ NoDriver
    /\ files = [f \in FileNames |-> NoFile]
    /\ proc = [p \in Procs |-> Idle]
    /\ serialized \in BOOLEAN

\* a caller may begin a call; callers that serialize wait for the others
MayCall(p) ==
    /\ proc[p].status \in {"idle", "returned"}
    /\ serialized => \A o \in Procs \ {p} : ~Busy(o)

CallArgs(q, n, w) ==
    /\ q \in CacheModuli
    /\ n \in 1..MaxOmegas
    /\ w \in CacheOmegas
    /\ check(q, w)

\* access(filename, F_OK) == -1: the cache file is missing
AccessMiss(p) ==
    \E q \in CacheModuli, n \in 1..MaxOmegas, w \in CacheOmegas :
        /\ CallArgs(q, n, w)
        /\ MayCall(p)
        /\ ~files[filename(w)].exists
        /\ proc' = [proc EXCEPT ![p] =
                      [Idle EXCEPT !.status = "miss", !.card = q, !.n = n,
                                   !.w = w, !.W = [i \in 1..n |-> Unset]]]
        /\ UNCHANGED <<ringVars, pc, call, ret, bufVars, files, serialized, vecVars, fft, outVars>>

\* file.open(filename, ios::out): the file is created, or truncated; the loop
\* then sets W and hands its lines to the stream, which writes them later
OpenForWriting(p) ==
    /\ proc[p].status = "miss"
    /\ LET me == proc[p]
           W == compute_omegas(me.card, me.n, me.w)
       IN /\ files' = [files EXCEPT ![filename(me.w)] =
                          [exists |-> TRUE, data |-> <<>>,
                           by_card |-> me.card, by_n |-> me.n]]
          /\ proc' = [proc EXCEPT ![p].status = "writing",
                                  ![p].W = W,
                                  ![p].pending = file_output(W),
                                  ![p].pos = 0]
    /\ UNCHANGED <<ringVars, pc, call, ret, bufVars, serialized, vecVars, fft, outVars>>

\* the stream buffer writes its first k characters to the file
Flush(p) ==
    /\ proc[p].status = "writing"
    /\ \E k \in 1..(Len(proc[p].pending) - 1) :
          LET me == proc[p]
              f == files[filename(me.w)]
          IN /\ files' = [files EXCEPT ![filename(me.w)].data =
                             write_at(f.data, me.pos, SubSeq(me.pending, 1, k))]
             /\ proc' = [proc EXCEPT
                            ![p].pending = SubSeq(me.pending, k + 1, Len(me.pending)),
                            ![p].pos = me.pos + k]
    /\ UNCHANGED <<ringVars, pc, call, ret, bufVars, serialized, vecVars, fft, outVars>>

\* the file after the stream is destroyed: what is left in its buffer is written
closed_file(data, pos, pending) == write_at(data, pos, pending)

\* mutant: the stream is dropped without writing what is left in its buffer
closed_file_unflushed(data, pos, pending) == data

\* the end of the miss path: the stream is destroyed, the call returns
CloseAndReturn(p) ==
    /\ proc[p].status = "writing"
    /\ LET me == proc[p]
           f == files[filename(me.w)]
       IN /\ files' = [files EXCEPT ![filename(me.w)].data =
                          closed_file(f.data, me.pos, me.pending)]
          /\ proc' = [proc EXCEPT ![p].status = "returned",
                                  ![p].nread = 0,
                                  ![p].pending = <<>>,
                                  ![p].pos = 0]
    /\ UNCHANGED <<ringVars, pc, call, ret, bufVars, serialized, vecVars, fft, outVars>>

\* the hit path: the file exists; its elements are read into W until the
\* stream fails, then assert(i == n). W.set(i, tmp) with i >= n is outside W.
AccessHitAndRead(p) ==
    \E q \in CacheModuli, n \in 1..MaxOmegas, w \in CacheOmegas :
        /\ CallArgs(q, n, w)
        /\ MayCall(p)
        /\ files[filename(w)].exists
        /\ LET read == read_elements(files[filename(w)].data, 1, <<>>)
               i == Len(read)
           IN proc' = [proc EXCEPT ![p] =
                         [Idle EXCEPT
                            !.status = IF i > n THEN "set_out_of_range"
                                       ELSE IF i = n THEN "returned"
                                       ELSE "assert_failed",
                            !.card = q, !.n = n, !.w = w,
                            !.W = [j \in 1..n |->
                                      IF j <= i THEN read[j] ELSE Unset],
                            !.nread = i]]
        /\ UNCHANGED <<ringVars, pc, call, ret, bufVars, files, serialized, vecVars, fft, outVars>>

NextCache ==
    \/ \E p \in Procs : AccessMiss(p)
    \/ \E p \in Procs : OpenForWriting(p)
    \/ \E p \in Procs : Flush(p)
    \/ \E p \in Procs : CloseAndReturn(p)
    \/ \E p \in Procs : AccessHitAndRead(p)

SpecCache == InitCache /\ [][NextCache]_vars

-----------------------------------------------------------------------------
(* array::Vector<T>: a runtime-sized, fixed-size sequence of elements *)

\* the Vector objects of the client, and the local tmp of the assignments
VecNames == {"a", "b"}
Tmp == "tmp"
VecObjs == VecNames \cup {Tmp}

\* a Vector is constructed with at most MaxVecLen elements
MaxVecLen == 2

\* the values of an element
VecVals == {0, 1}

\* the element sequences of at most MaxVecLen elements
VecSeqs == UNION {[1..n -> VecVals] : n \in 0..MaxVecLen}

\* the addresses Vector::allocator hands out; nullptr is none of them
Addrs == {1, 2, 3}
nullptr == 0

NoVector == [alive |-> FALSE, m_data |-> nullptr, m_size |-> 0]
NoBlock == [live |-> FALSE, elems |-> <<>>]

\* the six comparison results, before any comparison
NoResult == [eq |-> FALSE, ne |-> FALSE, lt |-> FALSE,
             gt |-> FALSE, le |-> FALSE, ge |-> FALSE]

NoOp == [op |-> "none", dst |-> "", src |-> "", arg |-> <<>>, exc |-> "none",
         allocs |-> 0, frees |-> 0, err |-> "none", result |-> NoResult]

\* the memory an operation starts from: the Vectors, the heap, and what the
\* operation did so far (blocks allocated and freed, exception thrown)
Mem == [vecs |-> vecs, heap |-> heap, allocs |-> 0, frees |-> 0,
        err |-> "none", exc |-> "none"]

\* allocator.allocate(n): a block of n elements at an address p not in use
allocate(M, p, n) ==
    [M EXCEPT !.heap[p] = [live |-> TRUE, elems |-> [i \in 1..n |-> 0]],
              !.allocs = @ + 1]

\* allocator.deallocate(p, n): the block at p is released; nullptr is ignored
\* and the release of a block that is not allocated is an error of the heap
deallocate(M, p, n) ==
    IF p = nullptr THEN M
    ELSE IF ~M.heap[p].live THEN [M EXCEPT !.err = "double_free"]
    ELSE [M EXCEPT !.heap[p] = NoBlock, !.frees = @ + 1]

\* the elements of [begin(), end()), in order
elements(M, v) ==
    LET p == M.vecs[v].m_data
    IN [i \in 1..M.vecs[v].m_size |->
           IF p # nullptr /\ i <= Len(M.heap[p].elems)
           THEN M.heap[p].elems[i]
           ELSE 0]

\* elems written to [begin(), end()): what std::uninitialized_fill_n,
\* std::uninitialized_copy and std::copy do to the storage of v
write_elements(M, v, elems) ==
    IF M.vecs[v].m_data = nullptr THEN M
    ELSE [M EXCEPT !.heap[M.vecs[v].m_data].elems = elems]

\* the content of a Vector(n) is uninitialized: whatever the block held
uninitialized(M, v, garbage) == write_elements(M, v, garbage)

\* explicit Vector(size_type n)
Vector_n(M, v, n, p) ==
    IF n # 0
    THEN [allocate(M, p, n) EXCEPT
             !.vecs[v] = [alive |-> TRUE, m_data |-> p, m_size |-> n]]
    ELSE [M EXCEPT
             !.vecs[v] = [alive |-> TRUE, m_data |-> nullptr, m_size |-> n]]

\* Vector(size_type n, const value_type& val)
Vector_fill(M, v, n, val, p) ==
    LET M1 == Vector_n(M, v, n, p)
    IN write_elements(M1, v, [i \in 1..M1.vecs[v].m_size |-> val])

\* Vector(InputIt first, InputIt last)
Vector_range(M, v, range, p) ==
    write_elements(Vector_n(M, v, Len(range), p), v, range)

\* mutant: the copy shares the storage of vec
Vector_copy_shallow(M, v, vec, p) ==
    [M EXCEPT !.vecs[v] = [alive |-> TRUE, m_data |-> M.vecs[vec].m_data,
                           m_size |-> M.vecs[vec].m_size]]

\* Vector(const Vector& vec)
Vector_copy(M, v, vec, p) == Vector_range(M, v, elements(M, vec), p)

\* mutant: vec keeps its pointer and size
Vector_move_keep_source(M, v, vec) ==
    [M EXCEPT !.vecs[v] = [alive |-> TRUE, m_data |-> M.vecs[vec].m_data,
                           m_size |-> M.vecs[vec].m_size]]

\* Vector(Vector&& vec) noexcept
Vector_move(M, v, vec) ==
    [M EXCEPT !.vecs[v] = [alive |-> TRUE, m_data |-> M.vecs[vec].m_data,
                           m_size |-> M.vecs[vec].m_size],
              !.vecs[vec].m_data = nullptr,
              !.vecs[vec].m_size = 0]

\* Vector(std::initializer_list<value_type> init_list)
Vector_init_list(M, v, init_list, p) == Vector_range(M, v, init_list, p)

\* ~Vector()
Vector_dtor(M, v) ==
    [deallocate(M, M.vecs[v].m_data, M.vecs[v].m_size) EXCEPT
        !.vecs[v] = NoVector]

\* mutant: the sizes are not exchanged
swap_data_only(M, lhs, rhs) ==
    [M EXCEPT !.vecs[lhs].m_data = M.vecs[rhs].m_data,
              !.vecs[rhs].m_data = M.vecs[lhs].m_data]

\* friend void swap(Vector<T>& lhs, Vector<T>& rhs) noexcept
swap(M, lhs, rhs) ==
    [M EXCEPT !.vecs[lhs].m_data = M.vecs[rhs].m_data,
              !.vecs[lhs].m_size = M.vecs[rhs].m_size,
              !.vecs[rhs].m_data = M.vecs[lhs].m_data,
              !.vecs[rhs].m_size = M.vecs[lhs].m_size]

\* mutant: tmp is built and destroyed, and this is never swapped with it
copy_assign_no_swap(M, this, vec, p) ==
    IF M.vecs[vec].m_size # M.vecs[this].m_size
    THEN [M EXCEPT !.exc = "InvalidArgument"]
    ELSE Vector_dtor(Vector_copy(M, Tmp, vec, p), Tmp)

\* Vector& operator=(const Vector& vec)
copy_assign(M, this, vec, p) ==
    IF M.vecs[vec].m_size # M.vecs[this].m_size
    THEN [M EXCEPT !.exc = "InvalidArgument"]
    ELSE LET M1 == Vector_copy(M, Tmp, vec, p)
             M2 == swap(M1, this, Tmp)
         IN Vector_dtor(M2, Tmp)

\* mutant: this and vec are swapped, and nothing is released
move_assign_swap_only(M, this, vec, asserts) ==
    IF asserts /\ M.vecs[vec].m_size # M.vecs[this].m_size
    THEN [M EXCEPT !.exc = "abort"]
    ELSE swap(M, this, vec)

\* Vector& operator=(Vector&& vec) noexcept; the assert is compiled in or not
move_assign(M, this, vec, asserts) ==
    IF asserts /\ M.vecs[vec].m_size # M.vecs[this].m_size
    THEN [M EXCEPT !.exc = "abort"]
    ELSE LET M1 == Vector_move(M, Tmp, vec)
             M2 == swap(M1, Tmp, this)
         IN Vector_dtor(M2, Tmp)

\* Vector& operator=(std::initializer_list<value_type> init_list)
init_list_assign(M, this, init_list) ==
    IF Len(init_list) # M.vecs[this].m_size
    THEN [M EXCEPT !.exc = "InvalidArgument"]
    ELSE write_elements(M, this, init_list)

\* vec[idx] = val, for idx < size()
subscript_assign(M, v, idx, val) ==
    write_elements(M, v, [elements(M, v) EXCEPT ![idx + 1] = val])

RECURSIVE equal(_, _)
\* std::equal(first1, last1, first2): element by element over [first1, last1)
equal(x, y) ==
    IF x = <<>> THEN TRUE
    ELSE IF ~(Head(x) = Head(y)) THEN FALSE
    ELSE equal(Tail(x), Tail(y))

\* friend bool operator==(const Vector& lhs, const Vector& rhs), on the
\* elements x of lhs and y of rhs
operator_eq(x, y) == Len(x) = Len(y) /\ equal(x, y)

operator_ne(x, y) == ~operator_eq(x, y)

RECURSIVE lexicographical_compare_no_prefix(_, _)
\* mutant: a range that ends first is not less than the longer one
lexicographical_compare_no_prefix(x, y) ==
    IF x = <<>> \/ y = <<>> THEN FALSE
    ELSE IF Head(x) < Head(y) THEN TRUE
    ELSE IF Head(y) < Head(x) THEN FALSE
    ELSE lexicographical_compare_no_prefix(Tail(x), Tail(y))

RECURSIVE lexicographical_compare(_, _)
\* std::lexicographical_compare(first1, last1, first2, last2): the first
\* mismatch decides; without one, the range that ends first is the lesser
lexicographical_compare(x, y) ==
    IF x = <<>> \/ y = <<>> THEN x = <<>> /\ y # <<>>
    ELSE IF Head(x) < Head(y) THEN TRUE
    ELSE IF Head(y) < Head(x) THEN FALSE
    ELSE lexicographical_compare(Tail(x), Tail(y))

operator_lt(x, y) == lexicographical_compare(x, y)
operator_gt(x, y) == operator_lt(y, x)
operator_le(x, y) == ~operator_lt(y, x)
operator_ge(x, y) == ~operator_lt(x, y)

\* the six comparisons of lhs with rhs
compare(x, y) ==
    [eq |-> operator_eq(x, y), ne |-> operator_ne(x, y),
     lt |-> operator_lt(x, y), gt |-> operator_gt(x, y),
     le |-> operator_le(x, y), ge |-> operator_ge(x, y)]

size(v) == vecs[v].m_size
max_size(v) == vecs[v].m_size
data(v) == vecs[v].m_data

\* the program starts without any Vector; it is built with or without NDEBUG
InitVec ==
    /\ Construct(2)
    /\ NoBufs
    /\ NoCache
    /\ NoDriver
    /\ vecs = [v \in VecObjs |-> NoVector]
    /\ heap = [p \in Addrs |-> NoBlock]
    /\ last = NoOp
    /\ ndebug \in BOOLEAN

\* the addresses allocate(n) may return; no block is asked for when n = 0
FreeFor(n) == IF n = 0 THEN {nullptr} ELSE {p \in Addrs : ~heap[p].live}

Alive == {v \in VecNames : vecs[v].alive}

\* a Vector operation of the client: M is the memory it leaves
VecCalled(op, dst, src, arg, M, result) ==
    /\ last.op = "none"
    /\ vecs' = M.vecs
    /\ heap' = M.heap
    /\ last' = [op |-> op, dst |-> dst, src |-> src, arg |-> arg,
                exc |-> M.exc, allocs |-> M.allocs, frees |-> M.frees,
                err |-> M.err, result |-> result]
    /\ UNCHANGED <<ringVars, pc, call, ret, bufVars, cacheVars, ndebug, fft, outVars>>

\* the client goes on after the operation, or after catching its exception;
\* a failed assert has ended the program
VecResume ==
    /\ last.op # "none"
    /\ last.exc # "abort"
    /\ last' = NoOp
    /\ UNCHANGED <<ringVars, pc, call, ret, bufVars, cacheVars,
                   vecs, heap, ndebug, fft, outVars>>

VecConstruct ==
    \E v \in VecNames \ Alive, n \in 0..MaxVecLen :
        \E p \in FreeFor(n), garbage \in [1..n -> VecVals] :
            VecCalled("Vector_n", v, v, <<n>>,
                      uninitialized(Vector_n(Mem, v, n, p), v, garbage),
                      NoResult)

VecConstructFill ==
    \E v \in VecNames \ Alive, n \in 0..MaxVecLen, val \in VecVals :
        \E p \in FreeFor(n) :
            VecCalled("Vector_fill", v, v, <<n, val>>,
                      Vector_fill(Mem, v, n, val, p), NoResult)

VecConstructRange ==
    \E v \in VecNames \ Alive, range \in VecSeqs :
        \E p \in FreeFor(Len(range)) :
            VecCalled("Vector_range", v, v, range,
                      Vector_range(Mem, v, range, p), NoResult)

VecConstructInitList ==
    \E v \in VecNames \ Alive, init_list \in VecSeqs :
        \E p \in FreeFor(Len(init_list)) :
            VecCalled("Vector_init_list", v, v, init_list,
                      Vector_init_list(Mem, v, init_list, p), NoResult)

VecConstructCopy ==
    \E v \in VecNames \ Alive, vec \in Alive :
        \E p \in FreeFor(size(vec)) :
            VecCalled("Vector_copy", v, vec, <<>>,
                      Vector_copy(Mem, v, vec, p), NoResult)

VecConstructMove ==
    \E v \in VecNames \ Alive, vec \in Alive :
        VecCalled("Vector_move", v, vec, <<>>,
                  Vector_move(Mem, v, vec), NoResult)

VecDestroy ==
    \E v \in Alive :
        VecCalled("Vector_dtor", v, v, <<>>, Vector_dtor(Mem, v), NoResult)

VecCopyAssign ==
    \E this \in Alive, vec \in Alive :
        \E p \in FreeFor(size(vec)) :
            VecCalled("copy_assign", this, vec, <<>>,
                      copy_assign(Mem, this, vec, p), NoResult)

VecMoveAssign ==
    \E this \in Alive, vec \in Alive :
        VecCalled("move_assign", this, vec, <<>>,
                  move_assign(Mem, this, vec, ~ndebug), NoResult)

VecInitListAssign ==
    \E this \in Alive, init_list \in VecSeqs :
        VecCalled("init_list_assign", this, this, init_list,
                  init_list_assign(Mem, this, init_list), NoResult)

VecSubscriptAssign ==
    \E v \in Alive, val \in VecVals :
        \E idx \in 0..(size(v) - 1) :
            VecCalled("subscript_assign", v, v, <<idx, val>>,
                      subscript_assign(Mem, v, idx, val), NoResult)

VecSwap ==
    \E lhs \in Alive, rhs \in Alive :
        VecCalled("swap", lhs, rhs, <<>>, swap(Mem, lhs, rhs), NoResult)

VecCompare ==
    \E lhs \in Alive, rhs \in Alive :
        VecCalled("compare", lhs, rhs, <<>>, Mem,
                  compare(elements(Mem, lhs), elements(Mem, rhs)))

NextVec ==
    \/ VecResume
    \/ VecConstruct
    \/ VecConstructFill
    \/ VecConstructRange
    \/ VecConstructInitList
    \/ VecConstructCopy
    \/ VecConstructMove
    \/ VecDestroy
    \/ VecCopyAssign
    \/ VecMoveAssign
    \/ VecInitListAssign
    \/ VecSubscriptAssign
    \/ VecSwap
    \/ VecCompare

SpecVec == InitVec /\ [][NextVec]_vars

-----------------------------------------------------------------------------
(* The scalar operations with their assert(check(..)) preconditions *)

\* the operands tried in a ring: every element of a small ring; zero, the
\* smallest, the middle and the largest elements of a wide one
Operands(q) ==
    IF q \in WideCards
    THEN {0, 1, 2, q \div 2, (q \div 2) + 1, q - 2, q - 1}
    ELSE 0..(q - 1)

\* the preconditions asserted by each operation and by the operations it
\* calls, in the order the calls are made
sub_asserts(q, a, b) == check(q, a) /\ check(q, b)

neg_asserts(q, a) == check(q, a) /\ sub_asserts(q, 0, a)

add_asserts(q, a, b) == check(q, a) /\ check(q, b)

mul_asserts(q, a, b) == check(q, a) /\ check(q, b)

inv_bezout_asserts(q, a) == check(q, a)

inv_asserts(q, a) == inv_bezout_asserts(q, a)

div_asserts(q, a, b) ==
    /\ check(q, a)
    /\ check(q, b)
    /\ inv_asserts(q, b)
    /\ mul_asserts(q, a, inv(q, b))

RECURSIVE exp_quick_asserts(_, _, _)
exp_quick_asserts(q, base, exponent) ==
    IF exponent = 0 \/ exponent = 1 THEN TRUE
    ELSE LET tmp == exp_quick(q, base, exponent \div 2)
             result == mul(q, tmp, tmp)
         IN /\ exp_quick_asserts(q, base, exponent \div 2)
            /\ mul_asserts(q, tmp, tmp)
            /\ (exponent % 2 = 1) => mul_asserts(q, result, base)

exp_asserts(q, a, b) ==
    /\ check(q, a)
    /\ check(q, b)
    /\ exp_quick_asserts(q, a, b)

\* rings of every modulus, built with or without NDEBUG
InitRange ==
    /\ \E q \in Moduli \cup WideCards : Construct(q)
    /\ NoBufs
    /\ NoCache
    /\ NoDriver
    /\ vecs = <<>> /\ heap = <<>> /\ last = <<>>
    /\ ndebug \in BOOLEAN

\* a call of a scalar operation: an assert that fails ends the program,
\* unless the asserts are compiled out
CalledChecked(op, a, b, asserts_hold, v) ==
    /\ pc = "ready"
    /\ call' = [op |-> op, a |-> a, b |-> b]
    /\ IF asserts_hold \/ ndebug
       THEN pc' = "returned" /\ ret' = Returns(v)
       ELSE pc' = "assert_failed" /\ ret' = NoRet
    /\ UNCHANGED <<ringVars, bufVars, cacheVars, vecVars, fft, outVars>>

CheckedNeg ==
    \E a \in Operands(card) :
        CalledChecked("neg", a, 0, neg_asserts(card, a), neg(card, a))

CheckedAdd ==
    \E a, b \in Operands(card) :
        CalledChecked("add", a, b, add_asserts(card, a, b), add(card, a, b))

CheckedSub ==
    \E a, b \in Operands(card) :
        CalledChecked("sub", a, b, sub_asserts(card, a, b), sub(card, a, b))

CheckedMul ==
    \E a, b \in Operands(card) :
        CalledChecked("mul", a, b, mul_asserts(card, a, b), mul(card, a, b))

CheckedInv ==
    \E a \in Operands(card) :
        CalledChecked("inv", a, 0, inv_asserts(card, a), inv(card, a))

CheckedDiv ==
    \E a, b \in Operands(card) :
        CalledChecked("div", a, b, div_asserts(card, a, b), div(card, a, b))

CheckedExp ==
    \E a, b \in Operands(card) :
        CalledChecked("exp", a, b, exp_asserts(card, a, b), exp(card, a, b))

NextRange ==
    \/ RingInit
    \/ Resume
    \/ CheckedNeg
    \/ CheckedAdd
    \/ CheckedSub
    \/ CheckedMul
    \/ CheckedInv
    \/ CheckedDiv
    \/ CheckedExp

SpecRange == InitRange /\ [][NextRange]_vars

-----------------------------------------------------------------------------
(* Reference definitions used by the properties *)

RECURSIVE PowMod(_, _, _)
\* a^e mod q, by the laws of the power: a^0 = 1, a^1 = a, a^(m+n) = a^m * a^n
PowMod(a, e, q) ==
    IF e = 0 THEN 1 % q
    ELSE IF e = 1 THEN a % q
    ELSE (PowMod(a, e \div 2, q) * PowMod(a, e - (e \div 2), q)) % q

SetMin(S) == CHOOSE x \in S : \A y \in S : x <= y
SetMax(S) == CHOOSE x \in S : \A y \in S : x >= y

\* the smallest d >= 1 with x^d = 1 (mod q), by scanning d = 1..q-1
NaiveOrder(q, x) == SetMin({d \in 1..(q - 1) : PowMod(x, d, q) = 1})

\* the powers of g enumerate the whole multiplicative group of Z/qZ
Generates(q, g) == {PowMod(g, k, q) : k \in 1..(q - 1)} = 1..(q - 1)

GcdRef(a, b) == SetMax({d \in 1..b : a % d = 0 /\ b % d = 0})

-----------------------------------------------------------------------------
(* Properties of the group-theoretic operations (SpecGroup) *)

\* C1: for a prime modulus, init() never reaches the 'root not found'
\* assertion and leaves a root g that generates the multiplicative group:
\* g is the first x in 2..q-1 passing the proper-divisor test (1 when q = 2),
\* is_primitive_root(g) is true and get_order(g) = q-1; for q = 97, g = 5.
C1_RootGeneratesGroup ==
    (IsPrime(card) /\ pc # "constructed") =>
        /\ pc # "assert_failed"
        /\ Generates(card, root)
        /\ (card = 2 => root = 1)
        /\ (card > 2 =>
              /\ root \in 2..(card - 1)
              /\ \A x \in 2..(root - 1) : ~Generates(card, x)
              /\ \A x \in 2..(root - 1) : ~is_primitive_root(x))
        /\ (card = 97 => root = 5)
        /\ (call.op = "get_primitive_root" => ret.val = root)
        /\ (call.op = "is_primitive_root" /\ call.a = root => ret.val = TRUE)
        /\ (call.op = "get_order" /\ call.a = root => ret.val = card - 1)

C1_Witness ==
    /\ card = 97
    /\ call.op = "get_order"
    /\ call.a = root
    /\ root = 5
    /\ ret.val = 96

\* C2: for a prime modulus and x in [1, q), get_order(x) is the smallest
\* d >= 1 with x^d = 1 (mod q) and divides q-1; get_order(0) = get_order(1) = 1.
C2_GetOrderIsSmallest ==
    (IsPrime(card) /\ call.op = "get_order") =>
        /\ (call.a >= 1 =>
              /\ ret.val = NaiveOrder(card, call.a)
              /\ (card - 1) % ret.val = 0)
        /\ (call.a \in {0, 1} => ret.val = 1)

C2_Witness ==
    /\ card = 13
    /\ call.op = "get_order"
    /\ call.a = 3
    /\ ret.val = 3

\* C3: for a prime modulus and n in [1, q), get_nth_root(n) = g^((q-1)/d) with
\* d = gcd(n, q-1) and g the cached root, and its n-th power is 1.
C3_NthRoot ==
    (IsPrime(card) /\ call.op = "get_nth_root") =>
        /\ ret.val = PowMod(root, (card - 1) \div GcdRef(call.a, card - 1), card)
        /\ PowMod(ret.val, call.a, card) = 1

C3_Witness ==
    /\ card = 7
    /\ call.op = "get_nth_root"
    /\ call.a = 4
    /\ ret.val = 6

-----------------------------------------------------------------------------
(* Properties of the scalar operations (Spec) *)

\* what log(a, b) must have produced: the smallest r in [1, q) with a^r = b,
\* NoSolution when there is none
LogRight ==
    LET S == {r \in 1..(card - 1) : PowMod(call.a, r, card) = call.b}
    IN IF S = {} THEN ret = NoSolution ELSE ret = Returns(SetMin(S))

\* C4: log(a, b) returns the smallest r in [1, q) with exp(a, r) = b and throws
\* NoSolution when there is none; the call leaves the ring's state unchanged,
\* and after a NoSolution the caller goes on with the same ring.
C4_LogSmallestOrNoSolution ==
    [][ /\ (call'.op = "log" => (LogRight' /\ UNCHANGED ringVars))
        /\ ((call.op = "log" /\ ret.exc = "NoSolution") =>
               (pc' = "ready" /\ UNCHANGED ringVars)) ]_vars

C4_Witness ==
    /\ card = 7
    /\ call.op = "log"
    /\ call.a = 2
    /\ call.b = 3
    /\ ret.exc = "NoSolution"

\* C5: for a prime modulus and a in [1, q), inv(a) is in [0, q) and
\* a * inv(a) = 1 (mod q); div(a, b) * b = a (mod q) for b # 0.
C5_InvIsInverse ==
    IsPrime(card) =>
        /\ (call.op = "inv" /\ call.a >= 1 =>
              /\ check(card, ret.val)
              /\ (call.a * ret.val) % card = 1)
        /\ (call.op = "div" /\ call.b # 0 =>
              /\ check(card, ret.val)
              /\ (ret.val * call.b) % card = call.a)

C5_Witness ==
    /\ card = 13
    /\ call.op = "div"
    /\ call.a = 5
    /\ call.b = 7
    /\ ret.val = 10

\* C6: exp_quick(a, e) = exp_naive(a, e) = a^e mod q for a, e in [0, q);
\* exp(a, 0) = 1, exp(a, 1) = a, and exp(a, q-1) = 1 for prime q and a # 0.
C6_ExpIsPower ==
    (call.op \in {"exp", "exp_naive", "exp_quick"}) =>
        /\ ret.val = PowMod(call.a, call.b, card)
        /\ ret.val = exp_naive(card, call.a, call.b)
        /\ ret.val = exp_quick(card, call.a, call.b)
        /\ (call.b = 0 => ret.val = 1)
        /\ (call.b = 1 => ret.val = call.a)
        /\ (IsPrime(card) /\ call.a # 0 /\ call.b = card - 1 => ret.val = 1)

C6_Witness ==
    /\ card = 13
    /\ call.op = "exp_quick"
    /\ call.a = 2
    /\ call.b = 11
    /\ ret.val = 7

-----------------------------------------------------------------------------
(* Properties of the butterflies (SpecBuf, SpecBufWide) *)

\* C7: butterfly_ct(c, P, Q, L) leaves, for every i < L, P[i] = (a + b) mod q
\* and Q[i] = (a - b) mod q with a = old P[i] and b = c * old Q[i] mod q; the
\* elements at indices >= L are unchanged and every written value is in [0, q).
C7_ButterflyCt ==
    [][ call'.op = "butterfly_ct" =>
          /\ UNCHANGED ringVars
          /\ Len(buf1') = Len(buf1) /\ Len(buf2') = Len(buf2)
          /\ \A i \in 1..BufLen :
                IF i <= call'.b
                THEN LET a == buf1[i]
                         b == (call'.a * buf2[i]) % card
                     IN /\ buf1'[i] = (a + b) % card
                        /\ buf2'[i] = (a + card - b) % card
                        /\ check(card, buf1'[i])
                        /\ check(card, buf2'[i])
                ELSE buf1'[i] = buf1[i] /\ buf2'[i] = buf2[i] ]_vars

C7_Witness ==
    /\ card = 3
    /\ call.op = "butterfly_ct"
    /\ call.a = 2
    /\ call.b = 1
    /\ buf1 = <<0, 2>>
    /\ buf2 = <<2, 1>>

\* C8: butterfly_gs(c, P, Q, L) leaves, for every i < L, P[i] = (a + b) mod q
\* and Q[i] = c * (a - b) mod q with a = old P[i] and b = old Q[i]; the
\* elements at indices >= L are unchanged and every written value is in [0, q).
C8_ButterflyGs ==
    [][ call'.op = "butterfly_gs" =>
          /\ UNCHANGED ringVars
          /\ Len(buf1') = Len(buf1) /\ Len(buf2') = Len(buf2)
          /\ \A i \in 1..BufLen :
                IF i <= call'.b
                THEN LET a == buf1[i]
                         b == buf2[i]
                     IN /\ buf1'[i] = (a + b) % card
                        /\ buf2'[i] = (call'.a * ((a + card - b) % card)) % card
                        /\ check(card, buf1'[i])
                        /\ check(card, buf2'[i])
                ELSE buf1'[i] = buf1[i] /\ buf2'[i] = buf2[i] ]_vars

C8_Witness ==
    /\ card = 3
    /\ call.op = "butterfly_gs"
    /\ call.a = 2
    /\ call.b = 1
    /\ buf1 = <<0, 2>>
    /\ buf2 = <<2, 1>>

-----------------------------------------------------------------------------
(* Properties of the omega cache (SpecCache) *)

\* the call of p has ended: it returned, or it stopped on a failed assertion
Ended(p) == proc[p].status \in {"returned", "assert_failed", "set_out_of_range"}

\* the call of p returned and left W[i] = w^i mod q for every 0 <= i < n
OmegasRight(p) ==
    /\ proc[p].status = "returned"
    /\ proc[p].W = [i \in 1..proc[p].n |-> PowMod(proc[p].w, i - 1, proc[p].card)]

\* C9: compute_omegas_cached has the semantics of compute_omegas: from an empty
\* cache directory, after any sequence of calls, one after the other, with any
\* mix of n, w and rings, each call leaves W[i] = w^i mod q for 0 <= i < n.
C9_CachedSameAsComputed ==
    serialized => \A p \in Procs : Ended(p) => OmegasRight(p)

\* the cache file of p's call was written by a call with the same ring and n
SameAsWriter(p) ==
    LET f == files[filename(proc[p].w)]
    IN f.by_card = proc[p].card /\ f.by_n = proc[p].n

\* C10: compute_omegas_cached is not safe under concurrent callers: a call that
\* finds the file of a call with the same arguments and still does not leave
\* the omegas in W (it read a file only partially written) happens only when
\* the callers do not serialize their calls.
C10_UnsafeOnlyWhenConcurrent ==
    \A p \in Procs :
        (Ended(p) /\ SameAsWriter(p) /\ ~OmegasRight(p)) => ~serialized

\* a caller finds the file created by the other, who is still writing it,
\* reads some but fewer than n elements and fails the assertion i == n
C10_Witness ==
    \E p, o \in Procs :
        /\ p # o
        /\ ~serialized
        /\ proc[o].status = "writing"
        /\ proc[o].w = proc[p].w /\ proc[o].n = proc[p].n
        /\ proc[o].card = proc[p].card
        /\ proc[p].status = "assert_failed"
        /\ proc[p].nread >= 1
        /\ proc[p].nread < proc[p].n

-----------------------------------------------------------------------------
(* Properties of array::Vector (SpecVec) *)

\* the step is a call of op
VecStep(op) == last.op = "none" /\ last'.op = op

\* the step assigns to a Vector from a Vector or a list of another size
MismatchedAssign ==
    \/ /\ VecStep("copy_assign") \/ VecStep("move_assign")
       /\ size(last'.src) # size(last'.dst)
    \/ /\ VecStep("init_list_assign")
       /\ Len(last'.arg) # size(last'.dst)

\* C11: assigning to a Vector from a Vector or an initializer list of a
\* different size throws InvalidArgument and leaves the destination as it
\* was (size, data() pointer, every element), and the source unchanged
C11_MismatchThrowsAndKeeps ==
    [][ MismatchedAssign =>
            /\ last'.exc = "InvalidArgument"
            /\ vecs' = vecs
            /\ heap' = heap ]_vars

\* C12: move-constructing b from a hands a's storage to b without copying:
\* b has a's former data() and size(), a is left empty (nullptr, 0), and
\* nothing is allocated, freed or written
C12_MoveConstructTransfers ==
    [][ VecStep("Vector_move") =>
            LET b == last'.dst
                a == last'.src
            IN /\ vecs'[b].alive /\ vecs'[a].alive
               /\ vecs'[b].m_data = vecs[a].m_data
               /\ vecs'[b].m_size = vecs[a].m_size
               /\ vecs'[a].m_data = nullptr
               /\ vecs'[a].m_size = 0
               /\ heap' = heap
               /\ last'.allocs = 0 /\ last'.frees = 0
               /\ last'.exc = "none" /\ last'.err = "none" ]_vars

C12_Witness ==
    /\ last.op = "Vector_move"
    /\ size(last.dst) > 0
    /\ data(last.dst) # nullptr
    /\ data(last.src) = nullptr
    /\ size(last.src) = 0

\* C13: move-assigning a = std::move(b) between Vectors of equal size gives
\* a the former data() of b (no element is copied), keeps the size of a, and
\* releases the former storage of a exactly once; moving a Vector to itself
\* leaves its data() pointer, its size and its elements as they were
C13_MoveAssignTransfers ==
    [][ (VecStep("move_assign") /\ size(last'.src) = size(last'.dst)) =>
            LET a == last'.dst
                b == last'.src
            IN /\ last'.exc = "none" /\ last'.err = "none"
               /\ last'.allocs = 0
               /\ vecs'[a].alive
               /\ vecs'[a].m_size = vecs[a].m_size
               /\ IF a = b
                  THEN /\ vecs' = vecs
                       /\ heap' = heap
                       /\ last'.frees = 0
                  ELSE /\ vecs'[a].m_data = vecs[b].m_data
                       /\ elements(Mem', a) = elements(Mem, b)
                       /\ \A p \in Addrs \ {vecs[a].m_data} : heap'[p] = heap[p]
                       /\ IF vecs[a].m_data = nullptr
                          THEN last'.frees = 0
                          ELSE /\ last'.frees = 1
                               /\ heap[vecs[a].m_data].live
                               /\ ~heap'[vecs[a].m_data].live ]_vars

C13_Witness ==
    /\ last.op = "move_assign"
    /\ last.dst # last.src
    /\ last.exc = "none"
    /\ last.frees = 1
    /\ size(last.dst) > 0
    /\ data(last.dst) # nullptr

\* C14: swap(a, b), for Vectors of equal or different sizes, exchanges their
\* data pointers and sizes and nothing else: it does not throw, a equals the
\* old b and b the old a, no element is copied, nothing is allocated or
\* freed, and a second swap restores both
C14_SwapExchanges ==
    [][ VecStep("swap") =>
            LET a == last'.dst
                b == last'.src
            IN /\ last'.exc = "none" /\ last'.err = "none"
               /\ vecs'[a] = vecs[b]
               /\ vecs'[b] = vecs[a]
               /\ \A v \in VecObjs \ {a, b} : vecs'[v] = vecs[v]
               /\ heap' = heap
               /\ last'.allocs = 0 /\ last'.frees = 0
               /\ operator_eq(elements(Mem', a), elements(Mem, b))
               /\ operator_eq(elements(Mem', b), elements(Mem, a))
               /\ swap(Mem', a, b) = Mem ]_vars

C14_Witness ==
    /\ last.op = "swap"
    /\ last.dst # last.src
    /\ size(last.dst) # size(last.src)
    /\ data(last.dst) # nullptr
    /\ data(last.src) # nullptr

\* C15: a Vector's storage is never reallocated: copy-assignment between
\* Vectors of equal size (self-assignment too) overwrites the elements in
\* place, so data() is the same before and after and no block is allocated
\* or freed
C15_CopyAssignInPlace ==
    [][ (VecStep("copy_assign") /\ size(last'.src) = size(last'.dst)) =>
            /\ vecs'[last'.dst].m_data = vecs[last'.dst].m_data
            /\ last'.allocs = 0
            /\ last'.frees = 0 ]_vars

\* the operations after which C16 reads the size again
SizeKeepingOps == {"subscript_assign", "copy_assign", "Vector_move",
                   "move_assign", "init_list_assign", "swap"}

\* C16: the size of a Vector cannot change after its creation: after element
\* writes, copy-assignments, move-constructions from it, move-assignments,
\* initializer-list assignments and swaps, size() and max_size() still
\* return the value given at construction
C16_SizeNeverChanges ==
    [][ (last.op = "none" /\ last'.op \in SizeKeepingOps) =>
            \A v \in VecNames :
                (vecs[v].alive /\ vecs'[v].alive) =>
                    /\ size(v)' = size(v)
                    /\ max_size(v)' = max_size(v) ]_vars

\* the live Vectors whose data() is p
Owners(p) == {v \in VecObjs : vecs[v].alive /\ vecs[v].m_data = p}

\* every allocated block belongs to exactly one live Vector, which has its
\* size; no Vector points to a block that is not allocated; no block was
\* released twice; the local tmp of an assignment is gone
ExclusiveOwnership ==
    /\ \A p \in Addrs :
          IF heap[p].live
          THEN /\ Cardinality(Owners(p)) = 1
               /\ \A v \in Owners(p) : Len(heap[p].elems) = vecs[v].m_size
          ELSE Owners(p) = {}
    /\ last.err = "none"
    /\ ~vecs[Tmp].alive

LiveBlocks == {p \in Addrs : heap[p].live}

\* C17: Vectors exclusively own their storage: whatever the constructions,
\* assignments, swaps and destructions, no two live Vectors hold the same
\* non-null pointer, every allocated block is owned by exactly one live
\* Vector or was released exactly once (no leak, no double free, no use of
\* freed storage), and a copy has storage of its own: a write to one Vector
\* is not seen in another
C17_ExclusiveOwnership ==
    [][ /\ ExclusiveOwnership
        /\ ExclusiveOwnership'
        /\ Cardinality(LiveBlocks') =
               Cardinality(LiveBlocks) + last'.allocs - last'.frees
        /\ VecStep("Vector_copy") =>
               /\ operator_eq(elements(Mem', last'.dst),
                              elements(Mem, last'.src))
               /\ elements(Mem', last'.src) = elements(Mem, last'.src)
               /\ size(last'.src) # 0 =>
                      /\ vecs'[last'.dst].m_data # nullptr
                      /\ vecs'[last'.dst].m_data # vecs'[last'.src].m_data
        /\ VecStep("subscript_assign") =>
               \A w \in Alive \ {last'.dst} :
                   elements(Mem', w) = elements(Mem, w) ]_vars

C17_Witness ==
    /\ last.op = "Vector_copy"
    /\ size(last.src) > 0
    /\ data(last.dst) # data(last.src)
    /\ Cardinality(LiveBlocks) = 2

\* x is before y in the lexicographic order: at the first difference x has
\* the smaller element, or x ends there and y does not
LexLess(x, y) ==
    \E k \in 0..Len(x) :
        /\ k <= Len(y)
        /\ \A i \in 1..k : x[i] = y[i]
        /\ \/ k = Len(x) /\ k < Len(y)
           \/ k < Len(x) /\ k < Len(y) /\ x[k + 1] < y[k + 1]

\* C18: a == b iff the sizes are equal and the elements pairwise equal, an
\* equivalence relation; a < b is the lexicographic order in which a proper
\* prefix is less than the longer vector, a strict total order (exactly one
\* of a < b, a == b, b < a); !=, >, <=, >= are consistent with these
C18_ComparisonOrder ==
    last.op = "compare" =>
        LET x == elements(Mem, last.dst)
            y == elements(Mem, last.src)
            r == last.result
        IN /\ r.eq <=> (Len(x) = Len(y) /\ \A i \in 1..Len(x) : x[i] = y[i])
           /\ r.lt <=> LexLess(x, y)
           /\ r.ne <=> ~r.eq
           /\ r.gt <=> LexLess(y, x)
           /\ r.le <=> ~r.gt
           /\ r.ge <=> ~r.lt
           /\ Cardinality({c \in {"lt", "eq", "gt"} : r[c]}) = 1
           /\ operator_eq(x, x) /\ ~operator_lt(x, x)
           /\ r.eq <=> operator_eq(y, x)
           /\ r.lt <=> operator_gt(y, x)
           /\ \A z \in VecSeqs :
                 /\ (r.eq /\ operator_eq(y, z)) => operator_eq(x, z)
                 /\ (r.lt /\ operator_lt(y, z)) => operator_lt(x, z)

C18_Witness ==
    /\ last.op = "compare"
    /\ size(last.dst) > 0
    /\ size(last.dst) < size(last.src)
    /\ \A i \in 1..size(last.dst) :
          elements(Mem, last.dst)[i] = elements(Mem, last.src)[i]
    /\ last.result.lt
    /\ ~last.result.eq

\* the elements of a Vector built from init_list
BuiltFrom(init_list) ==
    LET p == IF init_list = <<>> THEN nullptr ELSE CHOOSE a \in Addrs : TRUE
        M0 == [Mem EXCEPT !.vecs = [v \in VecObjs |-> NoVector],
                          !.heap = [a \in Addrs |-> NoBlock]]
    IN elements(Vector_init_list(M0, Tmp, init_list, p), Tmp)

\* C19: copy-assigning v1 = v2 between Vectors of equal size makes v1 == v2
\* and leaves v2 unchanged; copy-self-assignment leaves the size and the
\* elements unchanged; assigning an initializer list of the same size makes
\* the Vector equal to a Vector built from that list
C19_CopyAssignEquals ==
    [][ /\ (VecStep("copy_assign") /\ size(last'.src) = size(last'.dst)) =>
               LET v1 == last'.dst
                   v2 == last'.src
               IN /\ last'.exc = "none"
                  /\ operator_eq(elements(Mem', v1), elements(Mem', v2))
                  /\ vecs'[v1].m_size = vecs'[v2].m_size
                  /\ elements(Mem', v1) = elements(Mem, v2)
                  /\ elements(Mem', v2) = elements(Mem, v2)
                  /\ vecs'[v2].m_size = vecs[v2].m_size
                  /\ v1 # v2 => vecs'[v2] = vecs[v2]
        /\ (VecStep("init_list_assign") /\ Len(last'.arg) = size(last'.dst)) =>
               /\ last'.exc = "none"
               /\ vecs'[last'.dst].m_size = Len(last'.arg)
               /\ operator_eq(elements(Mem', last'.dst), BuiltFrom(last'.arg))
      ]_vars

C19_Witness ==
    /\ last.op = "copy_assign"
    /\ last.exc = "none"
    /\ last.dst # last.src
    /\ size(last.dst) > 0
    /\ last.allocs = 1
    /\ operator_eq(elements(Mem, last.dst), elements(Mem, last.src))

-----------------------------------------------------------------------------
(* Properties of the range of the ring elements (SpecRange) *)

RangeOps == {"neg", "add", "sub", "mul", "exp", "inv", "div"}

\* the divisor of the call, for the operations that invert one
Divisor == IF call.op = "inv" THEN call.a ELSE call.b

\* C20: ring elements stay in range: for every q >= 2 and all a, b in
\* [0, q), neg, add, sub, mul and exp, and for prime q and b # 0 inv(b) and
\* div(a, b), return an x with 0 <= x < q, and no assert(check(..)) inside
\* these operations fails
C20_ElementsStayInRange ==
    (/\ call.op \in RangeOps
     /\ call.op \in {"inv", "div"} => (IsPrime(card) /\ Divisor # 0))
        => /\ pc = "returned"
           /\ ret.exc = "none"
           /\ check(card, ret.val)
           /\ ret.val \in 0..(card - 1)

C20_Witness ==
    /\ call.op = "add"
    /\ pc = "returned"
    /\ call.a + call.b >= T_MOD
    /\ check(card, ret.val)

-----------------------------------------------------------------------------
(* Properties of the exact value of add, sub and neg (SpecRange) *)

AdditiveOps == {"add", "sub", "neg"}

\* the value the ring's arithmetic gives to the call
AdditiveValue ==
    CASE call.op = "add" -> (call.a + call.b) % card
      [] call.op = "sub" -> (call.a + card - call.b) % card
      [] call.op = "neg" -> (card - call.a) % card

\* C21: for every modulus q >= 2 that fits the element type and all a, b in
\* [0, q), add(a, b) returns (a + b) mod q although the sum is computed in the
\* element type, sub(a, b) returns (a - b) mod q and neg(a) returns
\* (q - a) mod q
C21_AddSubNegExact ==
    (pc = "returned" /\ call.op \in AdditiveOps) => ret.val = AdditiveValue

-----------------------------------------------------------------------------
(* Properties of the initialised ring (SpecRing) *)

\* C22: the ring is immutable after init(): no call of a scalar operation,
\* of log (also when it throws NoSolution), of is_primitive_root, get_order,
\* check_primitive_root, get_nth_root, compute_omegas, of a buffer operation
\* or of a butterfly changes _card, root, primes, exponents,
\* all_primes_factors or proper_divisors, and find_primitive_root() called
\* again leaves root as it is.
C22_RingImmutable ==
    [][ pc # "constructed" => UNCHANGED ringVars ]_vars

C22_Witness ==
    /\ pc = "returned"
    /\ call.op = "get_order"
    /\ call.a > 1
    /\ primes # <<>>
    /\ primes = factor_prime(card - 1).primes
    /\ root # 0

-----------------------------------------------------------------------------
(* Properties of the FFT driver (SpecFFT) *)

\* C23: the driver built for GF(q), q prime, and a length n with 1 <= n < q
\* holds inv_n_mod_p = n^-1 mod q: a value of [0, q) with
\* mul(n, inv_n_mod_p) = 1; the constructor stores the reference to the ring
\* and n as they are given, and does not modify the ring.
C23_DriverHoldsInverse ==
    [][ (fft = NoFFT /\ fft' # NoFFT) =>
          /\ UNCHANGED ringVars
          /\ fft'.gf = "ring"
          /\ fft'.n = call'.a
          /\ IsPrime(card) =>
                /\ check(card, fft'.inv_n_mod_p)
                /\ mul(card, fft'.n, fft'.inv_n_mod_p) = 1
                /\ (fft'.n * fft'.inv_n_mod_p) % card = 1 ]_vars

C23_Witness ==
    /\ card = 13
    /\ call.op = "FFT"
    /\ fft # NoFFT
    /\ fft.n = 5
    /\ fft.inv_n_mod_p = 8

-----------------------------------------------------------------------------
(* Properties of the roots of unity (SpecGroup) *)

NthRootReturned ==
    /\ pc = "returned"
    /\ call.op = "get_nth_root"
    /\ IsPrime(card)

-----------------------------------------------------------------------------
(* Properties of the worked examples (SpecExample) *)

NthRootOfExample ==
    /\ card = 97
    /\ pc = "returned"
    /\ call.op = "get_nth_root"
    /\ call.a = 8

OmegasOfExample ==
    /\ card = 97
    /\ pc = "returned"
    /\ call.op = "compute_omegas"
    /\ call.a = 8
    /\ call.b = 22

\* C25: in Ring(97) after init(), get_nth_root(8) = 5^12 mod 97 = 22, and
\* compute_omegas(W, 8, 22) writes W = [1, 22, 96, 75, 1, 22, 96, 75].
C25_ExampleRootIs22 ==
    /\ NthRootOfExample => (ret.val = PowMod(5, 12, 97) /\ ret.val = 22)
    /\ OmegasOfExample => omegas = <<1, 22, 96, 75, 1, 22, 96, 75>>

\* C25, as amended: in Ring(97) after init(), get_nth_root(8) = 5^12 mod 97
\* = 64, and compute_omegas(W, 8, 22) writes W = [1, 22, 96, 75, 1, 22, 96, 75].
C25_ExampleRootIs64 ==
    /\ NthRootOfExample => (ret.val = PowMod(5, 12, 97) /\ ret.val = 64)
    /\ OmegasOfExample => omegas = <<1, 22, 96, 75, 1, 22, 96, 75>>

C25_Witness ==
    /\ NthRootOfExample
    /\ root = 5
    /\ ret.val = 64

LogOfExample ==
    /\ card = 257
    /\ pc = "returned"
    /\ call.op = "log"
    /\ call.a = 3
    /\ call.b = 5

\* C26: in Ring(257), log(3, 5) returns 168, the smallest r in [1, 257) with
\* 3^r = 5 (mod 257).
C26_ExampleLogIs168 ==
    LogOfExample =>
        /\ ret = Returns(168)
        /\ PowMod(3, 168, 257) = 5
        /\ \A r \in 1..167 : PowMod(3, r, 257) # 5

\* C26, as amended: in Ring(257), log(3, 5) returns 55, the smallest r in
\* [1, 257) with 3^r = 5 (mod 257).
C26_ExampleLogIs55 ==
    LogOfExample =>
        /\ ret = Returns(55)
        /\ PowMod(3, 55, 257) = 5
        /\ \A r \in 1..54 : PowMod(3, r, 257) # 5

C26_Witness ==
    /\ LogOfExample
    /\ ret.exc = "none"
    /\ ret.val = 55
    /\ PowMod(3, ret.val, 257) = 5

-----------------------------------------------------------------------------
(* Properties of the operations on whole buffers (SpecBuf, SpecBufWide,
   SpecRing) *)

DoubledOps == {"hadamard_mul_doubled", "add_doubled"}

\* x[k] combined with y[j], by mul or by add mod q
Combined(op, a, b) ==
    IF op = "add_doubled" THEN (a + b) % card ELSE (a * b) % card

\* C27: hadamard_mul_doubled(n, x, y) and add_doubled(n, x, y) apply
\* y[0 .. n/2) to each half of x: for every n >= 0 every one of the n
\* elements of x is combined with exactly one element of y (x[i] and
\* x[i + n/2] both with y[i], by mul resp. add mod q), y is unchanged and
\* nothing outside x[0 .. n) is written.
C27_DoubledCoversX ==
    [][ call'.op \in DoubledOps =>
          LET n == call'.a
              half == n \div 2
          IN /\ \A i \in 1..half :
                   /\ buf1'[i] = Combined(call'.op, buf1[i], buf2[i])
                   /\ buf1'[i + half] = Combined(call'.op, buf1[i + half], buf2[i])
             /\ \A k \in 1..n : \E j \in 1..Len(buf2) :
                   buf1'[k] = Combined(call'.op, buf1[k], buf2[j])
             /\ buf2' = buf2
             /\ \A k \in (n + 1)..Len(buf1) : buf1'[k] = buf1[k] ]_vars

-----------------------------------------------------------------------------
(* Properties of the primitive-root tests (SpecGroup) *)

PrimitiveRootTests == {"is_primitive_root", "check_primitive_root"}

\* C28: for every prime q and every x in [0, q), is_primitive_root(x) is true
\* exactly when x is a primitive root (an element of order q - 1, whose
\* powers are the whole multiplicative group), and it agrees with
\* check_primitive_root(x), which is get_order(x) = q - 1.
C28_PrimitiveRootTestsAgree ==
    (pc = "returned" /\ IsPrime(card) /\ call.op \in PrimitiveRootTests) =>
        LET x == call.a
        IN /\ ret.val = Generates(card, x)
           /\ is_primitive_root(x) = check_primitive_root(x)
           /\ check_primitive_root(x) = (get_order(x) = card - 1)

\* C29: mul_vec_to_vecp(u, src, dest) is mul_coef_to_buf row by row: for
\* every q >= 2, coefficients u[i] and elements src[i][j] in [0, q), it
\* leaves dest[i][j] = u[i] * src[i][j] mod q for every i and j, whichever
\* case the coefficient takes (0: fill, 1: copy, q - 1: copy then negate,
\* otherwise multiply), and src and u are unchanged.
C29_MulVecToVecp ==
    [][ call'.op = "mul_vec_to_vecp" =>
          LET u == <<call'.a, call'.b>>
          IN /\ Len(dest') = Len(src_bufs)
             /\ \A i \in 1..Len(src_bufs) :
                   /\ dest'[i] = mul_coef_to_buf(card, u[i], src_bufs[i],
                                                 fresh_bufs[i], Len(src_bufs[i]))
                   /\ \A j \in 1..Len(src_bufs[i]) :
                         dest'[i][j] = (u[i] * src_bufs[i][j]) % card
             /\ UNCHANGED bufVars
             /\ UNCHANGED ringVars ]_vars

C29_Witness ==
    /\ card = 4
    /\ pc = "returned"
    /\ call.op = "mul_vec_to_vecp"
    /\ call.a = 3
    /\ call.b = 2
    /\ buf1[1] = 1
    /\ buf2[1] = 3
    /\ dest[1][1] = 3
    /\ dest[2][1] = 2

\* C30: for every prime q, every c in [1, q) and buffers of elements of
\* [0, q), butterfly_ct(c, P, Q, L) followed by butterfly_gs(inv(c), P, Q, L)
\* leaves P[i] = 2 * P0[i] mod q and Q[i] = 2 * Q0[i] mod q for every i < L;
\* for an odd q, multiplying both by inv(2) recovers the inputs.
C30_CtThenGsDoubles ==
    [][ (call'.op = "ct_then_gs" /\ IsPrime(card)) =>
          \A i \in 1..call'.b :
              /\ buf1'[i] = (2 * buf1[i]) % card
              /\ buf2'[i] = (2 * buf2[i]) % card
              /\ (card % 2 = 1) =>
                    /\ mul(card, inv(card, 2), buf1'[i]) = buf1[i]
                    /\ mul(card, inv(card, 2), buf2'[i]) = buf2[i] ]_vars

====
